---- MODULE Spec2Model ----
(***************************************************************************)
(* Model of OmniMarkupLib/RendererManager.py: the coalescing render queue  *)
(* (RendererWorker), the dispatch function (RendererManager.render_text)   *)
(* and the rendered-markup cache it writes.                                *)
(*                                                                         *)
(* Threads: one worker thread (RendererWorker.run), the submitting threads *)
(* Callers (each runs RendererWorker.queue), and one thread that calls     *)
(* RendererWorker.stop.  Every step between two points at which another    *)
(* thread can observe or change shared state is one action.                *)
(***************************************************************************)
EXTENDS Integers, Sequences, FiniteSets, TLC

\* ------------------------------------------------------------------ bounds
MaxCalls == 3          \* total number of queue() calls in a behaviour
MaxRenderers == 2      \* longest registry explored by the dispatch checks

\* ------------------------------------------------------------ input domain
Callers == {"c1", "c2"}
BufferIds == {"A", "B"}
\* A path is the sequence of its components; <<>> is None / the empty string.
NoPath == <<>>

\* ------------------------------------------------------------------ os.path
basename(p) == IF Len(p) = 0 THEN "" ELSE p[Len(p)]
dirname(p) == IF Len(p) = 0 THEN <<>> ELSE SubSeq(p, 1, Len(p) - 1)

\* ---------------------------------------------------------- WorkerQueueItem
WorkerQueueItem(fullpath, lang, text) ==
    [fullpath |-> IF fullpath = NoPath THEN <<"untitled">> ELSE fullpath,
     lang |-> lang,
     text |-> text]

\* The arguments the submitters pass to queue(): buffer A is the saved file
\* dir/a.md, buffer B an unsaved buffer; every text names its buffer.
InputsOf(buffer_id) ==
    IF buffer_id = "A"
    THEN {[fullpath |-> <<"dir", "a.md">>, lang |-> "markdown", text |-> "# A"],
          [fullpath |-> <<"dir", "a.md">>, lang |-> "markdown", text |-> "bad A"]}
    ELSE {[fullpath |-> NoPath, lang |-> "rst", text |-> "# B"],
          [fullpath |-> NoPath, lang |-> "txt", text |-> "bad B"]}
Inputs == UNION {InputsOf(b) : b \in BufferIds}

NoItem == [fullpath |-> <<>>, lang |-> "", text |-> ""]
NoPair == [key |-> "", item |-> NoItem]
NoHtml == <<>>

\* ---------------------------------------------------------------- renderers
\* A renderer plugin: is_enabled answers True for the languages in `langs',
\* raises for those in `raises'; render raises on the texts in `fails' and
\* otherwise returns its own markup of the text.
Renderer(name, langs, raises, fails) ==
    [name |-> name, langs |-> langs, raises |-> raises, fails |-> fails]

is_enabled_raises(r, filename, lang) == lang \in r.raises
is_enabled(r, filename, lang) == lang \in r.langs
render_raises(r, text, filename) == text \in r.fails
render(r, text, filename) == <<r.name, text>>

\* ------------------------------------------------------------- dict helpers
\* A Python dict is the set of its (key, value) pairs.
DictKeys(d) == {e.key : e \in d}
\* Variant: the insert adds a pair without dropping the key's old pair.
DictSet_KeepOld(d, k, v) == d \cup {[key |-> k, item |-> v]}
DictSet(d, k, v) == {e \in d : e.key # k} \cup {[key |-> k, item |-> v]}
DictGet(d, k) == {e.item : e \in {x \in d : x.key = k}}

\* --------------------------------------------------- RendererManager.render_text
\* Result of a call: ok with a value, or an exception name.
Return(v) == [ok |-> TRUE, val |-> v, exc |-> ""]
Raise(e) == [ok |-> FALSE, val |-> NoHtml, exc |-> e]

\* Variant: the try block covers only is_enabled; a failing render escapes.
TryRenderer_RenderUncaught(r, filename, lang, text) ==
    IF is_enabled_raises(r, filename, lang) THEN Raise("logged")
    ELSE IF ~is_enabled(r, filename, lang) THEN Raise("declined")
    ELSE IF render_raises(r, text, filename) THEN Raise("RendererExecutionFailure")
    ELSE Return(render(r, text, filename))

\* Variant: is_enabled is called outside the try block; its failure escapes.
TryRenderer_EnabledUncaught(r, filename, lang, text) ==
    IF is_enabled_raises(r, filename, lang) THEN Raise("RendererEnablementFailure")
    ELSE IF ~is_enabled(r, filename, lang) THEN Raise("declined")
    ELSE IF render_raises(r, text, filename) THEN Raise("logged")
    ELSE Return(render(r, text, filename))

\* One iteration of the for loop, lines 128-133: the markup when the renderer
\* returns it, "declined" when is_enabled is false, "logged" when the try
\* block (which holds both the is_enabled and the render call) catches.
TryRenderer(r, filename, lang, text) ==
    IF is_enabled_raises(r, filename, lang) THEN Raise("logged")
    ELSE IF ~is_enabled(r, filename, lang) THEN Raise("declined")
    ELSE IF render_raises(r, text, filename) THEN Raise("logged")
    ELSE Return(render(r, text, filename))

RECURSIVE render_from(_, _, _, _, _)
render_from(rs, i, filename, lang, text) ==
    IF i > Len(rs) THEN Raise("NotImplementedError")
    ELSE LET t == TryRenderer(rs[i], filename, lang, text)
         IN  IF t.ok THEN t
             ELSE IF t.exc \in {"logged", "declined"}
                  THEN render_from(rs, i + 1, filename, lang, text)
                  ELSE t

render_text(rs, filename, lang, text) == render_from(rs, 1, filename, lang, text)

RenderedMarkupCacheEntry(filename, dir, html_part) ==
    [filename |-> filename, dirname |-> dir, html_part |-> html_part]

\* Variant: no bare except clause after `except NotImplementedError'.
ExceptClauses_OnlyNotImplemented(exc) ==
    IF exc = "NotImplementedError" THEN "pass" ELSE "propagate"

\* except clauses of _run_queued_item, lines 72-75: what happens to an
\* exception raised inside the try block.
ExceptClauses(exc) ==
    IF exc = "NotImplementedError" THEN "pass" ELSE "logged"

\* ------------------------------------------------------------- registries
R_md == Renderer("md", {"markdown"}, {"rst"}, {"bad A", "bad B"})
R_any == Renderer("any", {"markdown", "rst"}, {}, {})
R_rst == Renderer("rst", {"rst"}, {}, {"# A", "# B"})
R_broken == Renderer("broken", {}, {"markdown", "txt"}, {})
RendererKinds == {R_md, R_any, R_rst, R_broken}

RECURSIVE SeqsUpTo(_, _)
SeqsUpTo(S, n) ==
    IF n = 0 THEN {<<>>}
    ELSE LET shorter == SeqsUpTo(S, n - 1)
         IN  shorter \cup {Append(q, x) : q \in shorter, x \in S}

\* The registries load_renderers may leave behind, up to MaxRenderers plugins.
AllRegistries == SeqsUpTo(RendererKinds, MaxRenderers)
\* The registries the worker runs with.
Registries == {<<>>, <<R_md>>, <<R_md, R_any>>}

\* ------------------------------------------------------------------- state
VARIABLES
    RENDERERS,   \* RendererManager.RENDERERS
    que,         \* RendererWorker.que: dict buffer_id -> WorkerQueueItem
    stopping,    \* RendererWorker.stopping
    mutex,       \* holder of RendererWorker.mutex, or "free"
    wpc,         \* position of the worker thread in run()
    items,       \* run(): the snapshot `items' still to be iterated
    cur,         \* run(): the (buffer_id, item) being processed
    whtml,       \* _run_queued_item on the worker: html_part
    cache,       \* RenderedMarkupCache: dict buffer_id -> entry
    cpc,         \* position of each submitter inside queue()
    carg,        \* queue(): buffer_id, item and immediate of each submitter
    chtml,       \* _run_queued_item on a submitter: html_part
    spc,         \* position of the thread calling stop()
    dargs,       \* arguments of the last direct render_text call
    dret,        \* result of the last direct render_text call
    ncalls,      \* history: number of queue() calls made
    served,      \* history: per buffer_id, state of its last queued request
    nqueued,     \* history: per buffer_id, queue() inserts since its last drain
    omnimarkup_enabled,  \* view.settings()['omnimarkup_enabled'] of each view
    lastcall,    \* history: arguments and outcome of the last queue_view call
    lastsub      \* history: per buffer_id, the item queue_view forwarded last

vars == <<RENDERERS, que, stopping, mutex, wpc, items, cur, whtml, cache,
          cpc, carg, chtml, spc, dargs, dret, ncalls, served, nqueued,
          omnimarkup_enabled, lastcall, lastsub>>

NoArg == [key |-> "", item |-> NoItem, immediate |-> FALSE]
NoRet == [ok |-> FALSE, val |-> NoHtml, exc |-> "none"]
NoCall == [filename |-> "", lang |-> "", text |-> ""]

\* The open views: two views of buffer A (a file and its clone), one of B.
Views == {"a1", "a2", "b1"}
buffer_id_of(view) == IF view \in {"a1", "a2"} THEN "A" ELSE "B"
NoView == [caller |-> "", view |-> "", only_exists |-> FALSE,
           immediate |-> FALSE, forwarded |-> FALSE]

\* RendererWorker.__init__ followed by Thread.start().
InitWorker ==
    /\ que = {}
    /\ stopping = FALSE
    /\ mutex = "free"
    /\ wpc = "top"
    /\ items = {}
    /\ cur = NoPair
    /\ whtml = NoHtml
    /\ cache = {}
    /\ cpc = [c \in Callers |-> "idle"]
    /\ carg = [c \in Callers |-> NoArg]
    /\ chtml = [c \in Callers |-> NoHtml]
    /\ spc = "idle"
    /\ dargs = NoCall
    /\ dret = NoRet
    /\ ncalls = 0
    /\ served = [b \in BufferIds |-> "none"]
    /\ nqueued = [b \in BufferIds |-> 0]
    /\ omnimarkup_enabled = [v \in Views |-> FALSE]
    /\ lastcall = NoView
    /\ lastsub = [b \in BufferIds |-> NoItem]

Init ==
    /\ RENDERERS \in Registries
    /\ InitWorker

\* Condition.notify(): wakes the waiting thread, if there is one.
Notified(pc) == IF pc = "waiting" THEN "notified" ELSE pc

\* Lines 67-69 of _run_queued_item for a (buffer_id, item) pair.
Dispatch(rs, pair) ==
    render_text(rs, basename(pair.item.fullpath), pair.item.lang, pair.item.text)

\* Line 70 of _run_queued_item.
EntryOf(pair, html) ==
    RenderedMarkupCacheEntry(basename(pair.item.fullpath),
                             dirname(pair.item.fullpath), html)

\* Variant: a logged failure ends the thread instead of the item.
AfterExcept_Dead(exc, done, dead) ==
    IF ExceptClauses(exc) = "pass" THEN done ELSE dead

\* Position of a thread that leaves _run_queued_item after exception exc.
AfterExcept(exc, done, dead) ==
    IF ExceptClauses(exc) \in {"pass", "logged"} THEN done ELSE dead

\* =========================================================== RendererWorker.run
WorkerVars == <<wpc, items, cur, whtml>>
CallerVars == <<cpc, carg, chtml>>
DirectVars == <<dargs, dret>>
ViewVars == <<omnimarkup_enabled, lastcall, lastsub>>

\* lines 79-80: `with self.cond:' acquires the mutex and cond.wait() releases
\* it again and blocks until notified; nothing is read or written in between.
WorkerWait ==
    /\ wpc = "top"
    /\ mutex = "free"
    /\ mutex' = "free"
    /\ wpc' = "waiting"
    /\ UNCHANGED <<RENDERERS, que, stopping, items, cur, whtml, cache,
                   CallerVars, spc, DirectVars, ViewVars, ncalls, served, nqueued>>

\* line 80: the notified worker re-acquires the mutex and wait() returns.
WorkerWake ==
    /\ wpc = "notified"
    /\ mutex = "free"
    /\ mutex' = "worker"
    /\ wpc' = "woken"
    /\ UNCHANGED <<RENDERERS, que, stopping, items, cur, whtml, cache,
                   CallerVars, spc, DirectVars, ViewVars, ncalls, served, nqueued>>

\* Variant: the pending set is tested before the stop flag.
WorkerCheck_DrainFirst ==
    /\ wpc = "woken"
    /\ IF Cardinality(que) # 0
       THEN wpc' = "snapshot" /\ mutex' = mutex
       ELSE IF stopping
            THEN wpc' = "terminated" /\ mutex' = "free"
            ELSE wpc' = "top" /\ mutex' = "free"
    /\ UNCHANGED <<RENDERERS, que, stopping, items, cur, whtml, cache,
                   CallerVars, spc, DirectVars, ViewVars, ncalls, served, nqueued>>

\* lines 81-84: break when stopping, continue when the dict is empty; both
\* leave the with block and release the mutex.
WorkerCheck ==
    /\ wpc = "woken"
    /\ IF stopping
       THEN wpc' = "terminated" /\ mutex' = "free"
       ELSE IF Cardinality(que) = 0
            THEN wpc' = "top" /\ mutex' = "free"
            ELSE wpc' = "snapshot" /\ mutex' = mutex
    /\ UNCHANGED <<RENDERERS, que, stopping, items, cur, whtml, cache,
                   CallerVars, spc, DirectVars, ViewVars, ncalls, served, nqueued>>

\* Variant: the with block ends after the snapshot, before the clear.
WorkerSnapshot_Unlocked ==
    /\ wpc = "snapshot"
    /\ items' = que
    /\ wpc' = "clear"
    /\ mutex' = "free"
    /\ served' = [b \in BufferIds |->
                    IF b \in DictKeys(que) THEN "drained" ELSE served[b]]
    /\ nqueued' = [b \in BufferIds |->
                     IF b \in DictKeys(que) THEN 0 ELSE nqueued[b]]
    /\ UNCHANGED <<RENDERERS, que, stopping, cur, whtml, cache,
                   CallerVars, spc, DirectVars, ViewVars, ncalls>>

\* line 85: items = self.que.items() copies the pairs of the dict.
WorkerSnapshot ==
    /\ wpc = "snapshot"
    /\ items' = que
    /\ wpc' = "clear"
    /\ served' = [b \in BufferIds |->
                    IF b \in DictKeys(que) THEN "drained" ELSE served[b]]
    /\ nqueued' = [b \in BufferIds |->
                     IF b \in DictKeys(que) THEN 0 ELSE nqueued[b]]
    /\ UNCHANGED <<RENDERERS, que, stopping, mutex, cur, whtml, cache,
                   CallerVars, spc, DirectVars, ViewVars, ncalls>>

\* Variant: the for loop stays inside the with block; the mutex is kept.
WorkerClear_KeepsLock ==
    /\ wpc = "clear"
    /\ que' = {}
    /\ wpc' = "loop"
    /\ UNCHANGED <<RENDERERS, stopping, mutex, items, cur, whtml, cache,
                   CallerVars, spc, DirectVars, ViewVars, ncalls, served, nqueued>>

\* line 86: self.que.clear(), then the with block ends and releases the mutex.
WorkerClear ==
    /\ wpc = "clear"
    /\ que' = {}
    /\ mutex' = "free"
    /\ wpc' = "loop"
    /\ UNCHANGED <<RENDERERS, stopping, items, cur, whtml, cache,
                   CallerVars, spc, DirectVars, ViewVars, ncalls, served, nqueued>>

\* line 87: the for loop takes the next pair, in the dict's arbitrary order.
WorkerNextItem ==
    /\ wpc = "loop"
    /\ \E pair \in items :
          /\ cur' = pair
          /\ items' = items \ {pair}
    /\ wpc' = "run"
    /\ UNCHANGED <<RENDERERS, que, stopping, mutex, whtml, cache,
                   CallerVars, spc, DirectVars, ViewVars, ncalls, served, nqueued>>

\* line 87: the for loop is exhausted; back to `while True'.
WorkerLoopEnd ==
    /\ wpc = "loop"
    /\ items = {}
    /\ wpc' = "top"
    /\ UNCHANGED <<RENDERERS, que, stopping, mutex, items, cur, whtml, cache,
                   CallerVars, spc, DirectVars, ViewVars, ncalls, served, nqueued>>

\* Variant: the try block encloses the for loop; a failure ends the batch.
WorkerRender_AbortsBatch ==
    /\ wpc = "run"
    /\ LET r == Dispatch(RENDERERS, cur)
       IN  IF r.ok
           THEN /\ whtml' = r.val
                /\ wpc' = "set"
                /\ cur' = cur
                /\ items' = items
           ELSE /\ whtml' = NoHtml
                /\ wpc' = "top"
                /\ cur' = NoPair
                /\ items' = {}
    /\ served' = [served EXCEPT ![cur.key] =
                    IF @ = "drained" THEN "none" ELSE @]
    /\ UNCHANGED <<RENDERERS, que, stopping, mutex, cache,
                   CallerVars, spc, DirectVars, ViewVars, ncalls, nqueued>>

\* Variant: an item whose dispatch failed is put back into the pending set.
WorkerRender_Requeues ==
    /\ wpc = "run"
    /\ LET r == Dispatch(RENDERERS, cur)
       IN  IF r.ok
           THEN /\ whtml' = r.val
                /\ wpc' = "set"
                /\ cur' = cur
                /\ que' = que
           ELSE /\ whtml' = NoHtml
                /\ wpc' = AfterExcept(r.exc, "loop", "crashed")
                /\ cur' = NoPair
                /\ que' = que \cup {cur}
    /\ served' = [served EXCEPT ![cur.key] =
                    IF @ = "drained" THEN "none" ELSE @]
    /\ UNCHANGED <<RENDERERS, stopping, mutex, items, cache,
                   CallerVars, spc, DirectVars, ViewVars, ncalls, nqueued>>

\* lines 65-69, 72-75 on the worker: render_text, or the except clauses.
WorkerRender ==
    /\ wpc = "run"
    /\ LET r == Dispatch(RENDERERS, cur)
       IN  IF r.ok
           THEN /\ whtml' = r.val
                /\ wpc' = "set"
                /\ cur' = cur
           ELSE /\ whtml' = NoHtml
                /\ wpc' = AfterExcept(r.exc, "loop", "crashed")
                /\ cur' = NoPair
    /\ served' = [served EXCEPT ![cur.key] =
                    IF @ = "drained" THEN "none" ELSE @]
    /\ UNCHANGED <<RENDERERS, que, stopping, mutex, items, cache,
                   CallerVars, spc, DirectVars, ViewVars, ncalls, nqueued>>

\* lines 70-71, 74-75 on the worker: set_entry stores the entry, or fails and
\* the bare except logs the failure.
WorkerSetEntry ==
    /\ wpc = "set"
    /\ \E stored \in BOOLEAN :
          IF stored
          THEN /\ cache' = DictSet(cache, cur.key, EntryOf(cur, whtml))
               /\ wpc' = "loop"
          ELSE /\ cache' = cache
               /\ wpc' = AfterExcept("CacheError", "loop", "crashed")
    /\ cur' = NoPair
    /\ whtml' = NoHtml
    /\ UNCHANGED <<RENDERERS, que, stopping, mutex, items,
                   CallerVars, spc, DirectVars, ViewVars, ncalls, served, nqueued>>

\* ========================================================= RendererWorker.queue
\* Variant: the immediate flag is ignored and every request is enqueued.
Queue_IgnoreImmediate(c, buffer_id, fullpath, lang, text, immediate) ==
    /\ cpc[c] = "idle"
    /\ ncalls < MaxCalls
    /\ LET item == WorkerQueueItem(fullpath, lang, text)
       IN  carg' = [carg EXCEPT ![c] = [key |-> buffer_id, item |-> item,
                                           immediate |-> immediate]]
    /\ cpc' = [cpc EXCEPT ![c] = "acquire"]
    /\ ncalls' = ncalls + 1
    /\ UNCHANGED <<RENDERERS, que, stopping, mutex, WorkerVars, cache, chtml,
                   spc, DirectVars, ViewVars, served, nqueued>>

\* lines 55-59: build the item and branch on `immediate'.
Queue(c, buffer_id, fullpath, lang, text, immediate) ==
    /\ cpc[c] = "idle"
    /\ ncalls < MaxCalls
    /\ LET item == WorkerQueueItem(fullpath, lang, text)
       IN  carg' = [carg EXCEPT ![c] = [key |-> buffer_id, item |-> item,
                                           immediate |-> immediate]]
    /\ cpc' = [cpc EXCEPT ![c] = IF immediate THEN "run" ELSE "acquire"]
    /\ ncalls' = ncalls + 1
    /\ UNCHANGED <<RENDERERS, que, stopping, mutex, WorkerVars, cache, chtml,
                   spc, DirectVars, ViewVars, served, nqueued>>

\* Variant: the insert is not wrapped in `with self.cond:'.
QueueAcquire_NoLock(c) ==
    /\ cpc[c] = "acquire"
    /\ cpc' = [cpc EXCEPT ![c] = "locked"]
    /\ UNCHANGED <<RENDERERS, que, stopping, mutex, WorkerVars, cache, carg, chtml,
                   spc, DirectVars, ViewVars, ncalls, served, nqueued>>

\* line 60: `with self.cond:' acquires the mutex.
QueueAcquire(c) ==
    /\ cpc[c] = "acquire"
    /\ mutex = "free"
    /\ mutex' = c
    /\ cpc' = [cpc EXCEPT ![c] = "locked"]
    /\ UNCHANGED <<RENDERERS, que, stopping, WorkerVars, cache, carg, chtml,
                   spc, DirectVars, ViewVars, ncalls, served, nqueued>>

\* line 61: self.que[buffer_id] = item.
QueueInsert(c) ==
    /\ cpc[c] = "locked"
    /\ que' = DictSet(que, carg[c].key, carg[c].item)
    /\ cpc' = [cpc EXCEPT ![c] = "notify"]
    /\ served' = [served EXCEPT ![carg[c].key] = "pending"]
    /\ nqueued' = [nqueued EXCEPT ![carg[c].key] = @ + 1]
    /\ UNCHANGED <<RENDERERS, stopping, mutex, WorkerVars, cache, carg, chtml,
                   spc, DirectVars, ViewVars, ncalls>>

\* line 62: self.cond.notify(), then the with block ends, the mutex is
\* released and queue() returns.
QueueNotify(c) ==
    /\ cpc[c] = "notify"
    /\ wpc' = Notified(wpc)
    /\ mutex' = "free"
    /\ cpc' = [cpc EXCEPT ![c] = "idle"]
    /\ carg' = [carg EXCEPT ![c] = NoArg]
    /\ UNCHANGED <<RENDERERS, que, stopping, items, cur, whtml, cache, chtml,
                   spc, DirectVars, ViewVars, ncalls, served, nqueued>>

\* lines 58, 65-69, 72-75 on the submitter: render_text, or the except clauses.
ImmediateRender(c) ==
    /\ cpc[c] = "run"
    /\ LET r == Dispatch(RENDERERS, carg[c])
       IN  IF r.ok
           THEN /\ chtml' = [chtml EXCEPT ![c] = r.val]
                /\ cpc' = [cpc EXCEPT ![c] = "set"]
                /\ carg' = carg
           ELSE /\ chtml' = chtml
                /\ cpc' = [cpc EXCEPT ![c] = AfterExcept(r.exc, "idle", "raised")]
                /\ carg' = [carg EXCEPT ![c] = NoArg]
    /\ UNCHANGED <<RENDERERS, que, stopping, mutex, WorkerVars, cache,
                   spc, DirectVars, ViewVars, ncalls, served, nqueued>>

\* lines 70-71, 74-75 on the submitter: set_entry stores the entry, or fails
\* and the bare except logs the failure; queue() returns.
ImmediateSetEntry(c) ==
    /\ cpc[c] = "set"
    /\ \E stored \in BOOLEAN :
          IF stored
          THEN /\ cache' = DictSet(cache, carg[c].key, EntryOf(carg[c], chtml[c]))
               /\ cpc' = [cpc EXCEPT ![c] = "idle"]
          ELSE /\ cache' = cache
               /\ cpc' = [cpc EXCEPT ![c] = AfterExcept("CacheError", "idle", "raised")]
    /\ carg' = [carg EXCEPT ![c] = NoArg]
    /\ chtml' = [chtml EXCEPT ![c] = NoHtml]
    /\ UNCHANGED <<RENDERERS, que, stopping, mutex, WorkerVars,
                   spc, DirectVars, ViewVars, ncalls, served, nqueued>>

\* ========================================================== RendererWorker.stop
\* line 91: self.stopping = True, written without the mutex.
StopSetFlag ==
    /\ spc = "idle"
    /\ stopping' = TRUE
    /\ spc' = "acquire"
    /\ UNCHANGED <<RENDERERS, que, mutex, WorkerVars, cache, CallerVars,
                   DirectVars, ViewVars, ncalls, served, nqueued>>

\* line 92: `with self.cond:' acquires the mutex.
StopAcquire ==
    /\ spc = "acquire"
    /\ mutex = "free"
    /\ mutex' = "stopper"
    /\ spc' = "locked"
    /\ UNCHANGED <<RENDERERS, que, stopping, WorkerVars, cache, CallerVars,
                   DirectVars, ViewVars, ncalls, served, nqueued>>

\* line 93: self.cond.notify(), then the with block releases the mutex.
StopNotify ==
    /\ spc = "locked"
    /\ wpc' = Notified(wpc)
    /\ mutex' = "free"
    /\ spc' = "join"
    /\ UNCHANGED <<RENDERERS, que, stopping, items, cur, whtml, cache,
                   CallerVars, DirectVars, ViewVars, ncalls, served, nqueued>>

\* Variant: stop() returns without joining the worker thread.
StopJoin_NoWait ==
    /\ spc = "join"
    /\ spc' = "returned"
    /\ UNCHANGED <<RENDERERS, que, stopping, mutex, WorkerVars, cache,
                   CallerVars, DirectVars, ViewVars, ncalls, served, nqueued>>

\* line 94: self.join() returns once the worker thread has ended.
StopJoin ==
    /\ spc = "join"
    /\ wpc \in {"terminated", "crashed"}
    /\ spc' = "returned"
    /\ UNCHANGED <<RENDERERS, que, stopping, mutex, WorkerVars, cache,
                   CallerVars, DirectVars, ViewVars, ncalls, served, nqueued>>

\* ================================================================ behaviours
Worker ==
    \/ WorkerWait
    \/ WorkerWake
    \/ WorkerCheck
    \/ WorkerSnapshot
    \/ WorkerClear
    \/ WorkerNextItem
    \/ WorkerLoopEnd
    \/ WorkerRender
    \/ WorkerSetEntry

\* The steps that finish a queue() call already made.
Submitter(c) ==
    \/ QueueAcquire(c)
    \/ QueueInsert(c)
    \/ QueueNotify(c)
    \/ ImmediateRender(c)
    \/ ImmediateSetEntry(c)

\* The steps that finish a stop() call already made.
Stopper ==
    \/ StopAcquire
    \/ StopNotify
    \/ StopJoin

Next ==
    \/ WorkerWait
    \/ WorkerWake
    \/ WorkerCheck
    \/ WorkerSnapshot
    \/ WorkerClear
    \/ WorkerNextItem
    \/ WorkerLoopEnd
    \/ WorkerRender
    \/ WorkerSetEntry
    \/ \E c \in Callers, b \in BufferIds, imm \in BOOLEAN :
          \E inp \in InputsOf(b) :
             Queue(c, b, inp.fullpath, inp.lang, inp.text, imm)
    \/ \E c \in Callers : QueueAcquire(c)
    \/ \E c \in Callers : QueueInsert(c)
    \/ \E c \in Callers : QueueNotify(c)
    \/ \E c \in Callers : ImmediateRender(c)
    \/ \E c \in Callers : ImmediateSetEntry(c)
    \/ StopSetFlag
    \/ StopAcquire
    \/ StopNotify
    \/ StopJoin

Spec == Init /\ [][Next]_vars

\* ------------------------------------------------ render_text on its own
\* A direct call of RendererManager.render_text, lines 126-134.
RenderText(filename, lang, text) ==
    /\ dargs' = [filename |-> filename, lang |-> lang, text |-> text]
    /\ dret' = render_text(RENDERERS, filename, lang, text)
    /\ UNCHANGED <<RENDERERS, que, stopping, mutex, WorkerVars, cache,
                   CallerVars, spc, ViewVars, ncalls, served, nqueued>>

DispatchInputs ==
    [filename : {"a.md", "untitled"},
     lang : {"markdown", "rst", "txt"},
     text : {"# A", "bad A"}]

DispatchInit ==
    /\ RENDERERS \in AllRegistries
    /\ InitWorker

DispatchNext ==
    \E inp \in DispatchInputs : RenderText(inp.filename, inp.lang, inp.text)

DispatchSpec == DispatchInit /\ [][DispatchNext]_vars

\* ------------------------------------------- RendererManager.queue_view
\* RenderedMarkupCache.exists(buffer_id).
exists(buffer_id) == buffer_id \in DictKeys(cache)

\* lines 140-143: the call returns without doing anything.
OptInGate(view, only_exists) ==
    /\ only_exists
    /\ ~exists(buffer_id_of(view))
    /\ ~omnimarkup_enabled[view]

\* Variant: only_exists is ignored and every call is forwarded.
QueueView_NoGate(c, view, fullpath, lang, text, only_exists, immediate) ==
    /\ cpc[c] = "idle"
    /\ ncalls < MaxCalls
    /\ ncalls' = ncalls + 1
    /\ LET item == WorkerQueueItem(fullpath, lang, text)
       IN  /\ omnimarkup_enabled' = [omnimarkup_enabled EXCEPT ![view] = TRUE]
           /\ lastcall' = [caller |-> c, view |-> view,
                           only_exists |-> only_exists,
                           immediate |-> immediate, forwarded |-> TRUE]
           /\ lastsub' = [lastsub EXCEPT ![buffer_id_of(view)] = item]
           /\ carg' = [carg EXCEPT ![c] = [key |-> buffer_id_of(view),
                                           item |-> item,
                                           immediate |-> immediate]]
           /\ cpc' = [cpc EXCEPT ![c] = IF immediate THEN "run" ELSE "acquire"]
    /\ UNCHANGED <<RENDERERS, que, stopping, mutex, WorkerVars, cache, chtml,
                   spc, DirectVars, served, nqueued>>

\* Variant: the early return does not look at the view's mark (line 142).
QueueView_MarkIgnored(c, view, fullpath, lang, text, only_exists, immediate) ==
    /\ cpc[c] = "idle"
    /\ ncalls < MaxCalls
    /\ ncalls' = ncalls + 1
    /\ IF only_exists /\ ~exists(buffer_id_of(view))
       THEN /\ lastcall' = [caller |-> c, view |-> view,
                            only_exists |-> only_exists,
                            immediate |-> immediate, forwarded |-> FALSE]
            /\ UNCHANGED <<omnimarkup_enabled, lastsub, cpc, carg>>
       ELSE LET item == WorkerQueueItem(fullpath, lang, text)
            IN  /\ omnimarkup_enabled' = [omnimarkup_enabled EXCEPT ![view] = TRUE]
                /\ lastcall' = [caller |-> c, view |-> view,
                                only_exists |-> only_exists,
                                immediate |-> immediate, forwarded |-> TRUE]
                /\ lastsub' = [lastsub EXCEPT ![buffer_id_of(view)] = item]
                /\ carg' = [carg EXCEPT ![c] = [key |-> buffer_id_of(view),
                                                item |-> item,
                                                immediate |-> immediate]]
                /\ cpc' = [cpc EXCEPT ![c] = IF immediate THEN "run" ELSE "acquire"]
    /\ UNCHANGED <<RENDERERS, que, stopping, mutex, WorkerVars, cache, chtml,
                   spc, DirectVars, served, nqueued>>

\* queue_view, lines 136-148, up to the branch inside WORKER.queue (lines
\* 55-59): either the early return of line 143, or the view is marked, its
\* text taken and the request handed to queue().
QueueView(c, view, fullpath, lang, text, only_exists, immediate) ==
    /\ cpc[c] = "idle"
    /\ ncalls < MaxCalls
    /\ ncalls' = ncalls + 1
    /\ IF OptInGate(view, only_exists)
       THEN /\ lastcall' = [caller |-> c, view |-> view,
                            only_exists |-> only_exists,
                            immediate |-> immediate, forwarded |-> FALSE]
            /\ UNCHANGED <<omnimarkup_enabled, lastsub, cpc, carg>>
       ELSE LET item == WorkerQueueItem(fullpath, lang, text)
            IN  /\ omnimarkup_enabled' = [omnimarkup_enabled EXCEPT ![view] = TRUE]
                /\ lastcall' = [caller |-> c, view |-> view,
                                only_exists |-> only_exists,
                                immediate |-> immediate, forwarded |-> TRUE]
                /\ lastsub' = [lastsub EXCEPT ![buffer_id_of(view)] = item]
                /\ carg' = [carg EXCEPT ![c] = [key |-> buffer_id_of(view),
                                                item |-> item,
                                                immediate |-> immediate]]
                /\ cpc' = [cpc EXCEPT ![c] = IF immediate THEN "run" ELSE "acquire"]
    /\ UNCHANGED <<RENDERERS, que, stopping, mutex, WorkerVars, cache, chtml,
                   spc, DirectVars, served, nqueued>>

\* The editor calls queue_view from its event handlers, one call after the
\* other on its main thread, while the worker thread runs.
MainThread == "c1"

ViewInit ==
    /\ RENDERERS \in {<<R_md>>, <<R_md, R_any>>}
    /\ InitWorker

ViewNext ==
    \/ WorkerWait
    \/ WorkerWake
    \/ WorkerCheck
    \/ WorkerSnapshot
    \/ WorkerClear
    \/ WorkerNextItem
    \/ WorkerLoopEnd
    \/ WorkerRender
    \/ WorkerSetEntry
    \/ \E view \in Views, only_exists \in BOOLEAN, imm \in BOOLEAN :
          \E inp \in InputsOf(buffer_id_of(view)) :
             QueueView(MainThread, view, inp.fullpath, inp.lang, inp.text,
                       only_exists, imm)
    \/ QueueAcquire(MainThread)
    \/ QueueInsert(MainThread)
    \/ QueueNotify(MainThread)
    \/ ImmediateRender(MainThread)
    \/ ImmediateSetEntry(MainThread)

ViewSpec == ViewInit /\ [][ViewNext]_vars

\* The interpreter schedules every runnable thread: a thread that can take a
\* step eventually takes one, and a thread that is repeatedly able to take
\* the mutex eventually gets it.  New queue() and stop() calls are not forced.
FairSpec ==
    /\ Spec
    /\ SF_vars(Worker)
    /\ \A c \in Callers : SF_vars(Submitter(c))
    /\ SF_vars(Stopper)

\* =================================================================== claims
\* No thread is inside a call, the worker is blocked in cond.wait() and
\* stop() has not been called: nothing happens until the next call.
Quiescent ==
    /\ wpc = "waiting"
    /\ \A c \in Callers : cpc[c] = "idle"
    /\ spc = "idle"

AtMostOnePerKey(d) == \A k \in DictKeys(d) : Cardinality(DictGet(d, k)) = 1

\* The cache entry a request produces when its dispatch succeeds.
RenderedEntries(buffer_id) ==
    {EntryOf([key |-> buffer_id, item |-> WorkerQueueItem(inp.fullpath, inp.lang, inp.text)],
             Dispatch(RENDERERS, [key |-> buffer_id,
                                  item |-> WorkerQueueItem(inp.fullpath, inp.lang, inp.text)]).val) :
        inp \in {i \in InputsOf(buffer_id) :
                   Dispatch(RENDERERS, [key |-> buffer_id,
                                        item |-> WorkerQueueItem(i.fullpath, i.lang, i.text)]).ok}}

\* A set_entry call is made in this step, by the worker / by a submitter.
WorkerSetEntryStep == wpc = "set" /\ wpc' # "set"
SubmitterSetEntryStep == \E c \in Callers : cpc[c] = "set" /\ cpc'[c] # "set"

\* C5: the pending set holds at most one request per buffer_id in every
\* state, and the insert of queue() makes the new item the entry of its
\* buffer_id and leaves the entries of all other buffer_ids as they were.
C5_LastWriteWins ==
    [][/\ AtMostOnePerKey(que) /\ AtMostOnePerKey(que')
       /\ \A c \in Callers :
             (cpc[c] = "locked" /\ cpc'[c] = "notify") =>
                /\ DictGet(que', carg[c].key) = {carg[c].item}
                /\ \A k \in BufferIds \ {carg[c].key} :
                      DictGet(que', k) = DictGet(que, k)]_vars

\* C5 witness: a second insert for a buffer_id has happened before any drain
\* and the pending set still holds one entry for it beside another buffer's.
C5_Witness ==
    \E b \in BufferIds :
       /\ nqueued[b] >= 2
       /\ Cardinality(DictGet(que, b)) = 1
       /\ Cardinality(que) = 2

\* C6: every step of an immediate queue() call leaves the pending set, the
\* mutex and the worker's wait state untouched, stays on the render / store
\* path of the calling thread, and the call returns only after set_entry was
\* called or the dispatch failure was caught.
C6_ImmediateBypass ==
    [][\A c \in Callers :
          ((carg[c].immediate \/ carg'[c].immediate) /\ cpc'[c] # cpc[c]) =>
             /\ que' = que
             /\ mutex' = mutex
             /\ wpc' = wpc
             /\ cpc'[c] \in {"run", "set", "idle"}
             /\ cpc'[c] = "idle" =>
                   \/ cpc[c] = "set"
                   \/ cpc[c] = "run" /\ ~Dispatch(RENDERERS, carg[c]).ok]_vars

\* C6 witness: an immediate call has dispatched on its own thread and is
\* about to store the entry while the pending set holds requests.
C6_Witness ==
    \E c \in Callers :
       /\ carg[c].immediate
       /\ cpc[c] = "set"
       /\ chtml[c] # NoHtml
       /\ que # {}

\* C8: no queue() call ends with an exception (nor does the worker thread),
\* a thread reaches set_entry only with the markup its dispatch returned, and
\* every cache entry is the rendering of a request of its buffer_id, so a
\* request for which no renderer produces a result writes nothing.
C8_FailuresStayInside ==
    /\ \A c \in Callers : cpc[c] # "raised"
    /\ wpc # "crashed"
    /\ \A c \in Callers :
          cpc[c] = "set" => /\ Dispatch(RENDERERS, carg[c]).ok
                            /\ chtml[c] = Dispatch(RENDERERS, carg[c]).val
    /\ wpc = "set" => /\ Dispatch(RENDERERS, cur).ok
                      /\ whtml = Dispatch(RENDERERS, cur).val
    /\ \A e \in cache : e.item \in RenderedEntries(e.key)

\* C8 witness: with an empty registry every call has returned, the worker
\* has processed what was queued, and the cache is still empty.
C8_Witness ==
    /\ RENDERERS = <<>>
    /\ ncalls = MaxCalls
    /\ \A c \in Callers : cpc[c] = "idle"
    /\ wpc = "waiting"
    /\ que = {}
    /\ \A b \in BufferIds : served[b] = "none"
    /\ cache = {}

\* ------------------------------------------------------------ C9, dispatch
\* The registered renderers, by position, that are enabled for the pair and
\* whose render call returns.
EnabledAndSuccessful(rs, filename, lang, text) ==
    {i \in 1..Len(rs) :
        /\ ~is_enabled_raises(rs[i], filename, lang)
        /\ is_enabled(rs[i], filename, lang)
        /\ ~render_raises(rs[i], text, filename)}

MinOf(S) == CHOOSE i \in S : \A j \in S : i <= j

\* C9: render_text returns the output of the first registered renderer that
\* is enabled and renders successfully, skipping the renderers that raise,
\* and raises NotImplementedError exactly when there is no such renderer.
C9_DispatchResult ==
    dargs # NoCall =>
       LET good == EnabledAndSuccessful(RENDERERS, dargs.filename, dargs.lang, dargs.text)
       IN  IF good = {}
           THEN dret = Raise("NotImplementedError")
           ELSE dret = Return(render(RENDERERS[MinOf(good)], dargs.text, dargs.filename))

\* C9 witness: the first renderer is enabled and its render raises, the
\* second one succeeds and render_text returned the second one's output.
C9_Witness ==
    /\ dargs # NoCall
    /\ Len(RENDERERS) = 2
    /\ is_enabled(RENDERERS[1], dargs.filename, dargs.lang)
    /\ ~is_enabled_raises(RENDERERS[1], dargs.filename, dargs.lang)
    /\ render_raises(RENDERERS[1], dargs.text, dargs.filename)
    /\ dret = Return(render(RENDERERS[2], dargs.text, dargs.filename))
    /\ RENDERERS[1].name # RENDERERS[2].name

\* ------------------------------------------------- C10, is_enabled failures
\* Some renderer consulted by render_text for the pair raises in is_enabled:
\* it stands before the first enabled and successful renderer, or there is
\* no such renderer.
EnablementFails(rs, pair) ==
    LET filename == basename(pair.item.fullpath)
        good == EnabledAndSuccessful(rs, filename, pair.item.lang, pair.item.text)
    IN  \E i \in 1..Len(rs) :
           /\ is_enabled_raises(rs[i], filename, pair.item.lang)
           /\ good # {} => i < MinOf(good)

\* C10 as stated: an item on which is_enabled raises during render_text is
\* abandoned, so the worker never reaches the cache write for such an item.
C10_EnablementFailureAbandonsItem ==
    wpc = "set" => ~EnablementFails(RENDERERS, cur)

\* C10 as amended: the is_enabled failure is caught inside render_text and
\* the search continues; the only exception that leaves render_text is
\* NotImplementedError, the worker survives, and an item on which is_enabled
\* raised reaches the cache write with the output of the first later
\* renderer that is enabled and successful.
C10_EnablementFailureIsSkipped ==
    /\ wpc # "crashed"
    /\ wpc = "run" =>
          \/ Dispatch(RENDERERS, cur).ok
          \/ Dispatch(RENDERERS, cur).exc = "NotImplementedError"
    /\ (wpc = "run" /\ EnablementFails(RENDERERS, cur)) =>
          LET filename == basename(cur.item.fullpath)
              good == EnabledAndSuccessful(RENDERERS, filename, cur.item.lang, cur.item.text)
          IN  /\ Dispatch(RENDERERS, cur).ok <=> good # {}
              /\ good # {} =>
                    Dispatch(RENDERERS, cur).val =
                       render(RENDERERS[MinOf(good)], cur.item.text, filename)
    /\ (wpc = "set" /\ EnablementFails(RENDERERS, cur)) =>
          whtml = Dispatch(RENDERERS, cur).val

\* C10 witness: the worker is about to store the entry of an item on which
\* the first renderer's is_enabled raised and the second renderer rendered,
\* and the batch still holds another item.
C10_Witness ==
    /\ wpc = "set"
    /\ Len(RENDERERS) = 2
    /\ is_enabled_raises(RENDERERS[1], basename(cur.item.fullpath), cur.item.lang)
    /\ whtml = render(RENDERERS[2], cur.item.text, basename(cur.item.fullpath))
    /\ items # {}

\* ------------------------------------------------------------- C3, stop()
\* C3 as stated: once stop() has returned, no thread calls set_entry.
C3_NoWriteAfterStop ==
    [][spc = "returned" => ~(WorkerSetEntryStep \/ SubmitterSetEntryStep)]_vars

\* C3 as amended: once stop() has returned the worker thread has ended, it
\* takes no further step and in particular calls set_entry no more.
C3_NoWorkerWriteAfterStop ==
    [][spc = "returned" =>
          /\ wpc = "terminated"
          /\ wpc' = wpc
          /\ ~WorkerSetEntryStep]_vars

\* C3 witness: stop() has returned, requests are left in the pending set and
\* a submitter is about to store the entry of an immediate request.
C3_Witness ==
    /\ spc = "returned"
    /\ que # {}
    /\ \E c \in Callers : cpc[c] = "set"

\* ------------------------------------------------- C1, C7: lost wake-ups
\* C1: the calls queued for a buffer_id before a drain are processed as
\* exactly one item: a drained batch holds one item per buffer_id, and once
\* nothing is running any more no queued call is left undrained.
C1_Coalescing ==
    /\ AtMostOnePerKey(items)
    /\ Quiescent => \A b \in BufferIds : nqueued[b] = 0

\* C7: every cache entry of a buffer_id is the rendering of a request of
\* that buffer_id, and the requests queued for each buffer_id are processed:
\* once nothing is running any more none of them is still waiting.
C7_Independence ==
    /\ \A e \in cache : e.item \in RenderedEntries(e.key)
    /\ Quiescent => \A b \in BufferIds : served[b] = "none"

\* ------------------------------------------------------ C2, C4: liveness
\* C2: a stop() call that has begun eventually returns.
C2_StopReturns == (spc = "acquire") ~> (spc = "returned")

\* C4: a request inserted by a non-immediate queue() is eventually
\* dispatched by the worker (it or a later one for the same buffer_id),
\* unless stop() is called.
C4_EventuallyServed ==
    \A b \in BufferIds : (served[b] = "pending") ~> (served[b] = "none" \/ stopping)

\* -------------------------------------------------- C11, C20: queue_view
\* This step is a queue_view call (its arguments are in lastcall').
QueueViewStep == ncalls' = ncalls + 1

\* C11: a queue_view call with only_exists for a view that has no cache
\* entry and no mark changes nothing (no mark, nothing enqueued or rendered);
\* every other call marks its view and hands exactly one request for the
\* view's buffer_id to queue() with the given immediate flag.
C11_OptInGate ==
    [][QueueViewStep =>
          LET a == lastcall'
              b == buffer_id_of(a.view)
          IN  IF a.only_exists /\ b \notin DictKeys(cache)
                               /\ ~omnimarkup_enabled[a.view]
              THEN /\ ~a.forwarded
                   /\ UNCHANGED <<omnimarkup_enabled, que, cache, cpc, carg,
                                  chtml, mutex, WorkerVars, lastsub>>
              ELSE /\ a.forwarded
                   /\ omnimarkup_enabled' =
                         [omnimarkup_enabled EXCEPT ![a.view] = TRUE]
                   /\ cpc[a.caller] = "idle"
                   /\ cpc'[a.caller] = IF a.immediate THEN "run" ELSE "acquire"
                   /\ carg'[a.caller].key = b
                   /\ carg'[a.caller].immediate = a.immediate
                   /\ carg'[a.caller].item = lastsub'[b]
                   /\ \A c \in Callers \ {a.caller} :
                         cpc'[c] = cpc[c] /\ carg'[c] = carg[c]
                   /\ UNCHANGED <<que, cache, mutex, WorkerVars>>]_vars

\* C11 witness: the last call was a no-op on an unmarked view without cache
\* entry, while another view has been marked and its buffer rendered.
C11_Witness ==
    /\ lastcall.only_exists
    /\ ~lastcall.forwarded
    /\ lastcall.view = "b1"
    /\ ~omnimarkup_enabled["b1"]
    /\ omnimarkup_enabled["a1"]
    /\ exists("A")
    /\ ~exists("B")

\* The step is made by the worker thread.
WorkerStep == wpc' # wpc \/ items' # items \/ cur' # cur \/ whtml' # whtml

\* Thread t holds the mutex while it makes the step.
HoldsAtStep(t) ==
    /\ mutex = t
    /\ IF t = "worker" THEN wpc' # wpc
       ELSE IF t = "stopper" THEN spc' # spc
       ELSE cpc'[t] # cpc[t]

\* C12: the worker loop ends only through stop(): the thread reaches its end
\* only with the stop flag set, no failure of an item ends it, and once it has
\* ended it takes no step and writes nothing.
C12_TerminatesOnlyViaStop ==
    [][ /\ (wpc' = "terminated" => stopping')
        /\ wpc' # "crashed"
        /\ (wpc = "terminated" => ~WorkerStep /\ ~WorkerSetEntryStep) ]_vars

C12_Witness ==
    /\ wpc = "terminated"
    /\ stopping
    /\ spc = "returned"
    /\ cache = {}
    /\ RENDERERS = <<>>
    /\ \E c \in Callers : cpc[c] = "notify" /\ mutex = c

\* C13: the worker never holds the mutex while it processes items; it holds
\* it only from the wake-up to the end of the clear, so a submitter's insert
\* is never kept waiting by the batch.
C13_NoLockWhileProcessing ==
    /\ (wpc \in {"loop", "run", "set"} => mutex # "worker")
    /\ (mutex = "worker" => wpc \in {"woken", "snapshot", "clear"})

C13_Witness ==
    /\ wpc = "run"
    /\ \E c \in Callers : cpc[c] = "notify" /\ mutex = c /\ carg[c].key = cur.key

\* C14: the drain is atomic: with the mutex held the worker copies the whole
\* pending set and empties it, no insert falls between the copy and the clear,
\* and the worker goes back to waiting only when the whole copy is processed.
C14_AtomicDrain ==
    [][ /\ (wpc = "snapshot" /\ wpc' # wpc
              => wpc' = "clear" /\ items' = que /\ que' = que)
        /\ (wpc = "clear" => items = que /\ mutex = "worker")
        /\ (wpc = "clear" /\ wpc' # wpc
              => wpc' = "loop" /\ que' = {} /\ items' = items)
        /\ (wpc \in {"snapshot", "clear"} /\ wpc' = wpc => que' = que)
        /\ (wpc' = "top" /\ wpc \in {"loop", "run", "set"}
              => items' = {} /\ cur' = NoPair)
        /\ (wpc' = "waiting" => items' = {} /\ cur' = NoPair) ]_vars

C14_Witness ==
    /\ wpc = "clear"
    /\ Cardinality(items) = 2
    /\ \E c \in Callers : cpc[c] = "acquire"

\* C15: the failure of one item of a batch is confined to it: whatever the
\* outcome of an item, the rest of the batch is kept and the loop goes on to
\* it, each item being taken from the batch exactly once.
C15_FailureIsolation ==
    [][ /\ (wpc \in {"run", "set"} /\ wpc' # wpc
              => items' = items /\ wpc' \in {"set", "loop"})
        /\ (wpc = "set" /\ wpc' # wpc => wpc' = "loop")
        /\ (wpc = "loop" /\ items # {} /\ wpc' # wpc
              => /\ wpc' = "run"
                 /\ cur' \in items
                 /\ items' = items \ {cur'})
        /\ (wpc = "loop" /\ wpc' = "top" => items = {})
        /\ (items' # items => wpc \in {"snapshot", "loop"}) ]_vars

C15_Witness ==
    /\ wpc = "run"
    /\ ~Dispatch(RENDERERS, cur).ok
    /\ Cardinality(items) = 1
    /\ \E pair \in items : Dispatch(RENDERERS, pair).ok

\* C16: the stop flag is read only on a wake-up and comes before the drain:
\* the worker ends only at that check, and when the flag is set there it ends
\* at once, leaving the pending set as it is and unprocessed for good.
C16_StopBeforeDrain ==
    [][ /\ (wpc' = "terminated" /\ wpc # "terminated"
              => /\ wpc = "woken"
                 /\ stopping
                 /\ que' = que
                 /\ items' = items
                 /\ cache' = cache)
        /\ (wpc = "woken" /\ stopping /\ wpc' # wpc => wpc' = "terminated")
        /\ (wpc = "terminated"
              => wpc' = "terminated" /\ DictKeys(que) \subseteq DictKeys(que')) ]_vars

C16_Witness ==
    /\ wpc = "woken"
    /\ stopping
    /\ que # {}
    /\ spc = "join"

\* C17: a request leaves the pending set when it is drained and is never put
\* back: only a submitter's insert adds to the pending set, the worker takes
\* each drained pair once and keeps no hold on it after processing it.
C17_RequestLifecycle ==
    [][ /\ (~(que' \subseteq que)
              => \E c \in Callers :
                    /\ cpc[c] = "locked"
                    /\ cpc'[c] = "notify"
                    /\ que' = DictSet(que, carg[c].key, carg[c].item))
        /\ (WorkerStep => que' \subseteq que)
        /\ (wpc \in {"run", "set"} /\ wpc' = "loop"
              => cur' = NoPair /\ cur \notin items' /\ que' = que)
        /\ (wpc = "loop" /\ wpc' = "run" => cur' \notin items') ]_vars

C17_Witness ==
    /\ wpc = "loop"
    /\ cur = NoPair
    /\ items = {}
    /\ que = {}
    /\ cache = {}
    /\ ncalls = MaxCalls

\* C18 as stated: the pending set is the only state shared between threads
\* and every access to shared state is made with the mutex held.
C18_AllSharedStateLocked ==
    [][ (que' # que \/ stopping' # stopping)
          => \E t \in Callers \cup {"worker", "stopper"} : HoldsAtStep(t) ]_vars

\* C18: every read and write of the pending set is made with the mutex held:
\* the submitter's insert, and the worker's emptiness test, copy and clear.
C18_PendingSetLocked ==
    [][ /\ (que' # que
              => \E t \in Callers \cup {"worker"} : HoldsAtStep(t))
        /\ (wpc \in {"woken", "snapshot", "clear"} /\ wpc' # wpc
              => mutex = "worker")
        /\ \A c \in Callers :
              cpc[c] = "locked" /\ cpc'[c] # cpc[c] => mutex = c ]_vars

C18_Witness ==
    \E c \in Callers :
        /\ cpc[c] = "notify"
        /\ mutex = c
        /\ [key |-> carg[c].key, item |-> carg[c].item] \in que
        /\ stopping
        /\ spc = "acquire"
        /\ wpc = "waiting"

\* The entry of buffer_id in cache c is the rendering of submission sub.
FreshIn(c, sub, buffer_id) ==
    LET pair == [key |-> buffer_id, item |-> sub]
        r == Dispatch(RENDERERS, pair)
    IN  /\ sub # NoItem
        /\ r.ok
        /\ buffer_id \in DictKeys(c)
        /\ DictGet(c, buffer_id) = {EntryOf(pair, r.val)}

\* C19: cache writes of one buffer_id follow the order of submission: once the
\* entry of a buffer is the rendering of its latest submission, no rendering
\* of an earlier submission replaces it.
C19_SubmissionOrder ==
    [][ \A b \in BufferIds :
          FreshIn(cache, lastsub[b], b) /\ lastsub'[b] = lastsub[b]
             => FreshIn(cache', lastsub'[b], b) ]_vars

\* C20: the opt-in mark of a view is never cleared; every forwarding call
\* leaves it set, and every call for a marked view forwards its request,
\* whatever only_exists and the cache are.
C20_OptInSticky ==
    [][ /\ \A v \in Views : omnimarkup_enabled[v] => omnimarkup_enabled'[v]
        /\ (QueueViewStep /\ lastcall'.forwarded
              => omnimarkup_enabled'[lastcall'.view])
        /\ (QueueViewStep /\ omnimarkup_enabled[lastcall'.view]
              => /\ lastcall'.forwarded
                 /\ cpc'[lastcall'.caller] =
                       IF lastcall'.immediate THEN "run" ELSE "acquire"
                 /\ carg'[lastcall'.caller].key = buffer_id_of(lastcall'.view)
                 /\ carg'[lastcall'.caller].item
                       = lastsub'[buffer_id_of(lastcall'.view)]) ]_vars

C20_Witness ==
    /\ lastcall.forwarded
    /\ lastcall.only_exists
    /\ ~exists(buffer_id_of(lastcall.view))
    /\ omnimarkup_enabled[lastcall.view]
    /\ cpc[lastcall.caller] = "acquire"
    /\ ncalls >= 2
====
